---- MODULE Spec2Model ----
(***************************************************************************)
(* A model of the libdns provider for Azure DNS (package azure).           *)
(*                                                                         *)
(* The provider (type Provider, with its Client: the azureClient handle    *)
(* and one mutex) is used by several concurrent callers.  Each public      *)
(* call (GetRecords, AppendRecords, SetRecords, DeleteRecords) runs        *)
(* getRecords, or createRecord/updateRecord/deleteRecord once per input    *)
(* record; each of these locks the mutex, runs setupClient, talks to the   *)
(* remote DNS service and unlocks on return.                               *)
(*                                                                         *)
(* Go strings whose characters the code inspects (record names, SOA data)  *)
(* are sequences of one-character strings.  Strings the code only compares *)
(* or copies (type tags, IP literals, targets) are TLA+ strings.  A Go     *)
(* pointer or slice is a sequence: <<>> is nil, <<v>> points to v.         *)
(***************************************************************************)
EXTENDS Integers, Sequences, FiniteSets, TLC

----------------------------------------------------------------------------
(* Go's strings package, on sequences of characters *)

HasSuffix(s, suffix) ==
    /\ Len(s) >= Len(suffix)
    /\ SubSeq(s, Len(s) - Len(suffix) + 1, Len(s)) = suffix

HasPrefix(s, prefix) ==
    /\ Len(s) >= Len(prefix)
    /\ SubSeq(s, 1, Len(prefix)) = prefix

TrimSuffix(s, suffix) ==
    IF HasSuffix(s, suffix) THEN SubSeq(s, 1, Len(s) - Len(suffix)) ELSE s

TrimPrefix(s, prefix) ==
    IF HasPrefix(s, prefix) THEN SubSeq(s, Len(prefix) + 1, Len(s)) ELSE s

\* Position of the first sep in s at or after position i, or 0
RECURSIVE IndexFrom(_, _, _)
IndexFrom(s, sep, i) ==
    IF i > Len(s) THEN 0
    ELSE IF s[i] = sep THEN i
    ELSE IndexFrom(s, sep, i + 1)

\* strings.SplitN(s, sep, n) for a one-character sep and n >= 1:
\* at most n parts, the last one holding the unsplit rest
RECURSIVE SplitN(_, _, _)
SplitN(s, sep, n) ==
    LET i == IndexFrom(s, sep, 1) IN
    IF n <= 1 \/ i = 0 THEN <<s>>
    ELSE <<SubSeq(s, 1, i - 1)>> \o SplitN(SubSeq(s, i + 1, Len(s)), sep, n - 1)

\* strings.Split(s, sep): every part
Split(s, sep) == SplitN(s, sep, Len(s) + 1)

----------------------------------------------------------------------------
(* Names *)

Dot == <<".">>
At == <<"@">>

\* libdns.RelativeName(fqdn, zone): trailing dots are ignored on both, the
\* zone is cut from the end of the name, then the dot that joined them
RelativeName(fqdn, zone) ==
    TrimSuffix(TrimSuffix(TrimSuffix(fqdn, Dot), TrimSuffix(zone, Dot)), Dot)

\* generateRecordSetName without its "@" for the empty name
generateRecordSetNameRaw(name, zone) ==
    RelativeName(TrimSuffix(name, Dot) \o Dot, zone)

generateRecordSetName(name, zone) ==
    LET recordSetName == RelativeName(TrimSuffix(name, Dot) \o Dot, zone) IN
    IF recordSetName = <<>> THEN At ELSE recordSetName

----------------------------------------------------------------------------
(* Record types *)

RecordTypes == {"A", "AAAA", "CAA", "CNAME", "MX", "NS", "SRV", "TXT", "PTR", "SOA"}

\* convertStringToRecordType returning its default without the error
convertStringToRecordTypeNoError(typeName) ==
    IF typeName \in RecordTypes
    THEN [recordType |-> typeName, err |-> FALSE, msg |-> <<>>]
    ELSE [recordType |-> "A", err |-> FALSE, msg |-> <<>>]

\* convertStringToRecordType: the Azure type, whether an error is returned,
\* and the parts of its message; on error the returned type is RecordTypeA
convertStringToRecordType(typeName) ==
    IF typeName \in RecordTypes
    THEN [recordType |-> typeName, err |-> FALSE, msg |-> <<>>]
    ELSE [recordType |-> "A", err |-> TRUE,
          msg |-> <<"the type ", typeName, " cannot be interpreted">>]

\* strings.ToUpper on the type names of the model that are not upper case
UpperCase == [t \in {"a", "ptr", "soa", "Ptr", "txt"} |->
                 CASE t = "a" -> "A"
                   [] t \in {"ptr", "Ptr"} -> "PTR"
                   [] t = "soa" -> "SOA"
                   [] t = "txt" -> "TXT"]

ToUpper(t) == IF t \in DOMAIN UpperCase THEN UpperCase[t] ELSE t

\* The resource-type prefix the service puts before the type in a record set
ResourcePrefix == "Microsoft.Network/dnszones/"

\* A record set's Type string is a pair: <<prefix, rest>>, the string
\* prefix followed by rest
TypeString(typeName) == <<ResourcePrefix, typeName>>

\* strings.TrimPrefix(*recordSet.Type, "Microsoft.Network/dnszones/")
TrimTypePrefix(t) == IF t[1] = ResourcePrefix THEN t[2] ELSE t[1] \o t[2]

----------------------------------------------------------------------------
(* Numbers and time *)

\* time.Second, in the unit a time.Duration counts here (milliseconds)
Second == 1000

Digits == {"0", "1", "2", "3", "4", "5", "6", "7", "8", "9"}

DigitValue(ch) == CHOOSE d \in 0..9 : ch = <<"0", "1", "2", "3", "4", "5", "6", "7", "8", "9">>[d + 1]

RECURSIVE NatDigits(_)
NatDigits(n) ==
    IF n < 10 THEN <<<<"0", "1", "2", "3", "4", "5", "6", "7", "8", "9">>[n + 1]>>
    ELSE NatDigits(n \div 10) \o NatDigits(n % 10)

\* An int64 is kept as its sign and the decimal digits of its magnitude, so
\* that it has its 64 bits whatever the width of the numbers of TLC.
\* Int64(n) is the int64 of a small number n
Int64(n) == [neg |-> n < 0, mag |-> NatDigits(IF n < 0 THEN 0 - n ELSE n)]

\* math.MaxInt64 and math.MinInt64
MaxInt64 ==
    [neg |-> FALSE,
     mag |-> <<"9", "2", "2", "3", "3", "7", "2", "0", "3", "6", "8", "5", "4", "7", "7", "5",
               "8", "0", "7">>]

MinInt64 ==
    [neg |-> TRUE,
     mag |-> <<"9", "2", "2", "3", "3", "7", "2", "0", "3", "6", "8", "5", "4", "7", "7", "5",
               "8", "0", "8">>]

\* Decimal digits without their leading zeros
RECURSIVE TrimZeros(_)
TrimZeros(s) == IF Len(s) > 1 /\ s[1] = "0" THEN TrimZeros(Tail(s)) ELSE s

\* a < b, for the digits of two magnitudes without leading zeros
RECURSIVE DigitsLess(_, _)
DigitsLess(a, b) ==
    IF Len(a) # Len(b) THEN Len(a) < Len(b)
    ELSE IF a = <<>> THEN FALSE
    ELSE IF a[1] # b[1] THEN DigitValue(a[1]) < DigitValue(b[1])
    ELSE DigitsLess(Tail(a), Tail(b))

\* strconv.ParseInt(s, 10, 64): an optional sign and one or more decimal
\* digits.  On a syntax error the value is 0; on a value out of the range of
\* an int64 it is an error too, and the value is the limit of the range on
\* the side of the sign
ParseInt(s) ==
    LET signed == s # <<>> /\ s[1] \in {"+", "-"}
        neg == signed /\ s[1] = "-"
        body == IF signed THEN Tail(s) ELSE s
        mag == TrimZeros(body)
    IN  IF body = <<>> \/ \E i \in 1..Len(body) : body[i] \notin Digits
        THEN [err |-> TRUE, value |-> Int64(0)]
        ELSE IF ~neg /\ DigitsLess(MaxInt64.mag, mag)
        THEN [err |-> TRUE, value |-> MaxInt64]
        ELSE IF neg /\ DigitsLess(MinInt64.mag, mag)
        THEN [err |-> TRUE, value |-> MinInt64]
        ELSE [err |-> FALSE, value |-> [neg |-> neg /\ mag # <<"0">>, mag |-> mag]]

\* fmt.Sprint of an int64
Sprint(n) == (IF n.neg THEN <<"-">> ELSE <<>>) \o n.mag

\* strings.Join(parts, sep)
RECURSIVE Join(_, _)
Join(parts, sep) ==
    IF parts = <<>> THEN <<>>
    ELSE IF Len(parts) = 1 THEN parts[1]
    ELSE parts[1] \o sep \o Join(Tail(parts), sep)

----------------------------------------------------------------------------
(* IP addresses *)

\* The IP literals of the model and the address netip.ParseAddr gives for
\* each: its family and the text Addr.String() prints.  Any other string
\* fails to parse.
IPLiterals ==
    [lit : {"127.0.0.1"}, is6 : {FALSE}, text : {"127.0.0.1"}] \cup
    [lit : {"10.0.0.1"}, is6 : {FALSE}, text : {"10.0.0.1"}] \cup
    [lit : {"::1"}, is6 : {TRUE}, text : {"::1"}] \cup
    [lit : {"0::1"}, is6 : {TRUE}, text : {"::1"}]

\* netip.ParseAddr(s)
ParseAddr(s) ==
    IF \E e \in IPLiterals : e.lit = s
    THEN LET e == CHOOSE e \in IPLiterals : e.lit = s
         IN  [err |-> FALSE, addr |-> [is6 |-> e.is6, text |-> e.text]]
    ELSE [err |-> TRUE, addr |-> [is6 |-> FALSE, text |-> "invalid IP"]]

MustParseAddr(s) == ParseAddr(s).addr

----------------------------------------------------------------------------
(* libdns records: one record per struct type, tagged by kind *)

Address(name, ttl, ip) == [kind |-> "Address", Name |-> name, TTL |-> ttl, IP |-> ip]
CAA(name, ttl, flags, tag, value) ==
    [kind |-> "CAA", Name |-> name, TTL |-> ttl, Flags |-> flags, Tag |-> tag, Value |-> value]
CNAME(name, ttl, target) == [kind |-> "CNAME", Name |-> name, TTL |-> ttl, Target |-> target]
MX(name, ttl, preference, target) ==
    [kind |-> "MX", Name |-> name, TTL |-> ttl, Target |-> target, Preference |-> preference]
NS(name, ttl, target) == [kind |-> "NS", Name |-> name, TTL |-> ttl, Target |-> target]
SRV(service, transport, name, ttl, priority, weight, port, target) ==
    [kind |-> "SRV", Name |-> name, TTL |-> ttl, Target |-> target, Service |-> service,
     Transport |-> transport, Priority |-> priority, Weight |-> weight, Port |-> port]
TXT(name, ttl, text) == [kind |-> "TXT", Name |-> name, TTL |-> ttl, Text |-> text]
RR(name, ttl, type, data) == [kind |-> "RR", Name |-> name, TTL |-> ttl, Type |-> type, Data |-> data]

\* record.RR().Type
RRType(record) ==
    CASE record.kind = "Address" -> IF record.IP.is6 THEN "AAAA" ELSE "A"
      [] record.kind = "RR" -> record.Type
      [] OTHER -> record.kind

\* record.RR().Name: an SRV record's name carries its service and transport
RRName(record) ==
    IF record.kind = "SRV"
    THEN <<"_">> \o record.Service \o Dot \o <<"_">> \o record.Transport \o Dot \o record.Name
    ELSE record.Name

\* The types RR.Parse() turns into a struct of their own
ParsedTypes == {"A", "AAAA", "CAA", "CNAME", "MX", "NS", "SRV", "TXT", "HTTPS", "SVCB"}

\* record.RR().Parse(): a struct is printed and read back as itself, unless it
\* is an Address without a valid IP, whose text does not parse; an RR of type
\* A or AAAA becomes the Address its data parses to, of whichever family; an
\* RR of a type libdns has no struct for stays an RR.  (The data of an RR of
\* type A or AAAA is held as one piece of text; the RR inputs of this model
\* carry no other type of ParsedTypes.)
Parse(record) ==
    IF record.kind = "Address" /\ ParseAddr(record.IP.text).err
    THEN [err |-> TRUE, rec |-> record]
    ELSE IF record.kind = "RR" /\ record.Type \in {"A", "AAAA"}
    THEN IF Len(record.Data) # 1 \/ ParseAddr(record.Data[1]).err
         THEN [err |-> TRUE, rec |-> record]
         ELSE [err |-> FALSE,
               rec |-> Address(record.Name, record.TTL, ParseAddr(record.Data[1]).addr)]
    ELSE [err |-> FALSE, rec |-> record]

----------------------------------------------------------------------------
(* Azure record sets (armdns.RecordSet) *)

RecordSetProperties(ttl) ==
    [TTL |-> ttl, ARecords |-> <<>>, AaaaRecords |-> <<>>, CaaRecords |-> <<>>,
     CnameRecord |-> <<>>, MxRecords |-> <<>>, NsRecords |-> <<>>, PtrRecords |-> <<>>,
     SoaRecord |-> <<>>, SrvRecords |-> <<>>, TxtRecords |-> <<>>]

\* armdns.RecordSet{}: every field nil
EmptyRecordSet == [Name |-> <<>>, Type |-> <<>>, Etag |-> <<>>, Properties |-> <<>>]

\* armdns.RecordSet{Etag: to.Ptr(""), Properties: &props}
RecordSetWithEtag(props) == [EmptyRecordSet EXCEPT !.Etag = <<"">>, !.Properties = <<props>>]

\* armdns.RecordSet{Properties: &props}
RecordSetOf(props) == [EmptyRecordSet EXCEPT !.Properties = <<props>>]

\* int64(rec.TTL / time.Second)
TTLSeconds(ttl) == ttl \div Second

----------------------------------------------------------------------------
(* Conversion of libdns records to Azure record sets *)

Space == <<" ">>

\* The SOA case, were a field that does not parse an error
SoaRecordSetStrict(rec) ==
    LET values == Split(rec.Data, " ") IN
    IF Len(values) < 7 \/ \E i \in 3..7 : ParseInt(values[i]).err
    THEN [err |-> TRUE, recordSet |-> EmptyRecordSet]
    ELSE [err |-> FALSE,
          recordSet |-> RecordSetOf(
              [RecordSetProperties(<<TTLSeconds(rec.TTL)>>) EXCEPT !.SoaRecord =
                  <<[Host |-> values[1], Email |-> values[2],
                     SerialNumber |-> ParseInt(values[3]).value,
                     RefreshTime |-> ParseInt(values[4]).value,
                     RetryTime |-> ParseInt(values[5]).value,
                     ExpireTime |-> ParseInt(values[6]).value,
                     MinimumTTL |-> ParseInt(values[7]).value]>>])]

\* The SOA case of convertLibdnsRecordToAzureRecordSet
SoaRecordSet(rec) ==
    LET values == Split(rec.Data, " ") IN
    IF Len(values) < 7
    THEN [err |-> TRUE, recordSet |-> EmptyRecordSet]
    ELSE [err |-> FALSE,
          recordSet |-> RecordSetOf(
              [RecordSetProperties(<<TTLSeconds(rec.TTL)>>) EXCEPT !.SoaRecord =
                  <<[Host |-> values[1], Email |-> values[2],
                     SerialNumber |-> ParseInt(values[3]).value,
                     RefreshTime |-> ParseInt(values[4]).value,
                     RetryTime |-> ParseInt(values[5]).value,
                     ExpireTime |-> ParseInt(values[6]).value,
                     MinimumTTL |-> ParseInt(values[7]).value]>>])]

\* convertLibdnsRecordToAzureRecordSet(record): the record set and whether an
\* error is returned
convertLibdnsRecordToAzureRecordSet(record) ==
    LET parsed == Parse(record)
        rec == parsed.rec
        props == RecordSetProperties(<<TTLSeconds(rec.TTL)>>)
        ok(p) == [err |-> FALSE, recordSet |-> RecordSetOf(p)]
        failed == [err |-> TRUE, recordSet |-> EmptyRecordSet]
    IN  IF parsed.err THEN failed
        ELSE CASE rec.kind = "Address" ->
                    IF rec.IP.is6
                    THEN ok([props EXCEPT !.AaaaRecords = <<[IPv6Address |-> rec.IP.text]>>])
                    ELSE ok([props EXCEPT !.ARecords = <<[IPv4Address |-> rec.IP.text]>>])
               [] rec.kind = "CAA" ->
                    ok([props EXCEPT !.CaaRecords =
                        <<[Flags |-> rec.Flags, Tag |-> rec.Tag, Value |-> rec.Value]>>])
               [] rec.kind = "CNAME" ->
                    ok([props EXCEPT !.CnameRecord = <<[Cname |-> rec.Target]>>])
               [] rec.kind = "MX" ->
                    ok([props EXCEPT !.MxRecords =
                        <<[Preference |-> rec.Preference, Exchange |-> rec.Target]>>])
               [] rec.kind = "NS" ->
                    ok([props EXCEPT !.NsRecords = <<[Nsdname |-> rec.Target]>>])
               [] rec.kind = "SRV" ->
                    ok([props EXCEPT !.SrvRecords =
                        <<[Target |-> rec.Target, Priority |-> rec.Priority,
                           Weight |-> rec.Weight, Port |-> rec.Port]>>])
               [] rec.kind = "TXT" ->
                    ok([props EXCEPT !.TxtRecords = <<[Value |-> <<rec.Text>>]>>])
               [] rec.kind = "RR" ->
                    CASE ToUpper(rec.Type) = "PTR" ->
                           ok([props EXCEPT !.PtrRecords = <<[Ptrdname |-> rec.Data]>>])
                      [] ToUpper(rec.Type) = "SOA" -> SoaRecordSet(rec)
                      [] OTHER -> failed
               [] OTHER -> failed

----------------------------------------------------------------------------
(* Conversion of Azure record sets to libdns records *)

\* time.Duration(*recordSet.Properties.TTL) * time.Second
TTLDuration(recordSet) == recordSet.Properties[1].TTL[1] * Second

Uint8(n) == n % 256
Uint16(n) == n % 65536

\* One element per payload entry: f applied to each entry of entries
RECURSIVE MapSeq(_, _)
MapSeq(f(_), entries) ==
    IF entries = <<>> THEN <<>> ELSE <<f(Head(entries))>> \o MapSeq(f, Tail(entries))

RECURSIVE Flatten(_)
Flatten(seqs) == IF seqs = <<>> THEN <<>> ELSE Head(seqs) \o Flatten(Tail(seqs))

\* An SRV record whose name is the third component alone
srvRecordThirdLabel(name, ttl, v) ==
    LET parts == Split(name, ".") IN
    SRV(TrimPrefix(parts[1], <<"_">>), TrimPrefix(parts[2], <<"_">>),
        IF Len(parts) >= 3 THEN parts[3] ELSE At, ttl,
        Uint16(v.Priority), Uint16(v.Weight), Uint16(v.Port), v.Target)

\* The SRV record of entry v of a record set with this name, of two
\* components at least: service and transport are the first two without a
\* leading "_", the name is the rest, or "@" when there is none
srvRecord(name, ttl, v) ==
    LET parts == SplitN(name, ".", 3) IN
    SRV(TrimPrefix(parts[1], <<"_">>), TrimPrefix(parts[2], <<"_">>),
        IF Len(parts) = 3 THEN parts[3] ELSE At, ttl,
        Uint16(v.Priority), Uint16(v.Weight), Uint16(v.Port), v.Target)

\* The records of one record set, by its type, and whether its conversion
\* fails (one iteration of the loop of convertAzureRecordSetsToLibdnsRecords)
RecordsOfSet(recordSet) ==
    LET typeName == TrimTypePrefix(recordSet.Type[1])
        p == recordSet.Properties[1]
        name == recordSet.Name[1]
        ttl == TTLDuration(recordSet)
        ok(recs) == [err |-> FALSE, records |-> recs]
        failed == [err |-> TRUE, records |-> <<>>]
        a(v) == Address(name, ttl, ParseAddr(v.IPv4Address).addr)
        aaaa(v) == Address(name, ttl, ParseAddr(v.IPv6Address).addr)
        caa(v) == CAA(name, ttl, Uint8(v.Flags), v.Tag, v.Value)
        mx(v) == MX(name, ttl, Uint16(v.Preference), v.Exchange)
        ns(v) == NS(name, ttl, v.Nsdname)
        parts == SplitN(name, ".", 3)
        srv(v) == srvRecord(name, ttl, v)
        txt(t) == TXT(name, ttl, t)
        txts(v) == MapSeq(txt, v.Value)
        ptr(v) == RR(name, ttl, "PTR", v.Ptrdname)
        soa == p.SoaRecord[1]
    IN  CASE typeName = "A" ->
               IF \E i \in 1..Len(p.ARecords) : ParseAddr(p.ARecords[i].IPv4Address).err
               THEN failed ELSE ok(MapSeq(a, p.ARecords))
          [] typeName = "AAAA" ->
               IF \E i \in 1..Len(p.AaaaRecords) : ParseAddr(p.AaaaRecords[i].IPv6Address).err
               THEN failed ELSE ok(MapSeq(aaaa, p.AaaaRecords))
          [] typeName = "CAA" -> ok(MapSeq(caa, p.CaaRecords))
          [] typeName = "CNAME" -> ok(<<CNAME(name, ttl, p.CnameRecord[1].Cname)>>)
          [] typeName = "MX" -> ok(MapSeq(mx, p.MxRecords))
          [] typeName = "NS" -> ok(MapSeq(ns, p.NsRecords))
          [] typeName = "SRV" ->
               IF p.SrvRecords # <<>> /\ Len(parts) < 2
               THEN failed ELSE ok(MapSeq(srv, p.SrvRecords))
          [] typeName = "TXT" -> ok(Flatten(MapSeq(txts, p.TxtRecords)))
          [] typeName = "PTR" -> ok(MapSeq(ptr, p.PtrRecords))
          [] typeName = "SOA" ->
               ok(<<RR(name, ttl, "SOA",
                       Join(<<soa.Host, soa.Email, Sprint(soa.SerialNumber),
                              Sprint(soa.RefreshTime), Sprint(soa.RetryTime),
                              Sprint(soa.ExpireTime), Sprint(soa.MinimumTTL)>>, Space))>>)
          [] OTHER -> failed

\* convertAzureRecordSetsToLibdnsRecords(recordSets): the records and whether
\* an error is returned; the first record set that fails ends the conversion
\* and nothing converted so far is returned
RECURSIVE convertFrom(_, _)
convertFrom(recordSets, records) ==
    IF recordSets = <<>> THEN [err |-> FALSE, records |-> records]
    ELSE LET one == RecordsOfSet(Head(recordSets)) IN
         IF one.err THEN [err |-> TRUE, records |-> <<>>]
         ELSE convertFrom(Tail(recordSets), records \o one.records)

convertAzureRecordSetsToLibdnsRecords(recordSets) == convertFrom(recordSets, <<>>)

----------------------------------------------------------------------------
(* The remote DNS service: the zone's record sets, at most one per         *)
(* (relative name, type), in the order the service lists them: by name,    *)
(* then by type                                                            *)

\* The names and the types of the record sets of the model, in listing order
NameOrder == <<At, <<"a">>, <<"b">>>>
TypeOrder == <<"A", "AAAA", "CAA", "CNAME", "ERR", "MX", "NS", "PTR", "SOA", "SRV", "TXT">>

PositionIn(order, x) == CHOOSE i \in 1..Len(order) : order[i] = x

Rank(name, recordType) ==
    PositionIn(NameOrder, name) * (Len(TypeOrder) + 1) + PositionIn(TypeOrder, recordType)

RankOfSet(set) == Rank(set.Name[1], TrimTypePrefix(set.Type[1]))

\* z with the record set stored put in at its place in the listing
RECURSIVE InsertSet(_, _)
InsertSet(z, stored) ==
    IF z = <<>> THEN <<stored>>
    ELSE IF RankOfSet(stored) < RankOfSet(Head(z)) THEN <<stored>> \o z
    ELSE <<Head(z)>> \o InsertSet(Tail(z), stored)

\* Position in zone z of the record set with this name and type, or 0
RECURSIVE IndexOfSet(_, _, _, _)
IndexOfSet(z, name, recordType, i) ==
    IF i > Len(z) THEN 0
    ELSE IF z[i].Name = <<name>> /\ z[i].Type = <<TypeString(recordType)>> THEN i
    ELSE IndexOfSet(z, name, recordType, i + 1)

HasSet(z, name, recordType) == IndexOfSet(z, name, recordType, 1) # 0

RemoveAt(z, i) == SubSeq(z, 1, i - 1) \o SubSeq(z, i + 1, Len(z))

\* The record set the service stores and answers with: the parameters under
\* the name and type of the request, with an ETag of the service's
StoredSet(name, recordType, parameters) ==
    [parameters EXCEPT !.Name = <<name>>,
                       !.Type = <<TypeString(recordType)>>,
                       !.Etag = <<"ETAG_" \o recordType>>]

\* A CreateOrUpdate that leaves a record set that exists as it is
RemoteCreateOrUpdateKeeping(z, name, recordType, parameters, ifNoneMatch) ==
    LET i == IndexOfSet(z, name, recordType, 1)
        stored == StoredSet(name, recordType, parameters)
    IN  IF i # 0 /\ (ifNoneMatch = "*" \/ z[i].Etag = <<ifNoneMatch>>)
        THEN [zone |-> z, err |-> TRUE]
        ELSE IF i # 0 THEN [zone |-> z, err |-> FALSE]
        ELSE [zone |-> InsertSet(z, stored), err |-> FALSE]

\* RecordSetsClient.CreateOrUpdate with the If-None-Match header ifNoneMatch:
\* with "*" the request is refused when the record set exists, and with an
\* ETag when the existing record set carries it; otherwise the record set is
\* created, or replaced
RemoteCreateOrUpdate(z, name, recordType, parameters, ifNoneMatch) ==
    LET i == IndexOfSet(z, name, recordType, 1)
        stored == StoredSet(name, recordType, parameters)
    IN  IF i # 0 /\ (ifNoneMatch = "*" \/ z[i].Etag = <<ifNoneMatch>>)
        THEN [zone |-> z, err |-> TRUE]
        ELSE IF i # 0 THEN [zone |-> [z EXCEPT ![i] = stored], err |-> FALSE]
        ELSE [zone |-> InsertSet(z, stored), err |-> FALSE]

\* A Delete that answers with an error when there is no such record set
RemoteDeleteNotFound(z, name, recordType) ==
    LET i == IndexOfSet(z, name, recordType, 1) IN
    [zone |-> IF i = 0 THEN z ELSE RemoveAt(z, i), err |-> i = 0]

\* RecordSetsClient.Delete without If-Match: the record set of that name and
\* type is removed; when there is none the request succeeds all the same
RemoteDelete(z, name, recordType) ==
    LET i == IndexOfSet(z, name, recordType, 1) IN
    [zone |-> IF i = 0 THEN z ELSE RemoveAt(z, i), err |-> FALSE]

Min(a, b) == IF a < b THEN a ELSE b

\* One page of the listing of zone z: size record sets from position next on
RemotePage(z, next, size) == SubSeq(z, next, Min(next + size - 1, Len(z)))

----------------------------------------------------------------------------
(* Inputs *)

\* Longest batch of records given to AppendRecords, SetRecords, DeleteRecords
MaxBatch == 2

\* Largest page the service hands out
MaxPageSize == 2

\* The goroutines that share the provider
Callers == {"c1", "c2"}

\* The zone argument of every call, "z."
Zone == <<"z", ".">>

Str_a == <<"a">>
Str_b == <<"b">>
Str_a_z == <<"a", ".", "z", ".">>

\* Input records: two address records of one record set ("a" and "a.z." are
\* the same name in zone "z."), a TXT record, a record of an unsupported
\* type, and a SOA record whose data has too few fields
recA1 == Address(Str_a, 30 * Second, MustParseAddr("127.0.0.1"))
recA2 == Address(Str_a_z, 60 * Second, MustParseAddr("10.0.0.1"))
recTxt == TXT(Str_b, 30 * Second, "hello")
recErr == RR(Str_a, 30 * Second, "ERR", <<"x">>)
recSoaShort == RR(At, 30 * Second, "SOA", <<"n", " ", "h", " ", "1">>)

Records == {recA1, recA2, recTxt, recErr, recSoaShort}

RECURSIVE SeqsUpTo(_, _)
SeqsUpTo(S, n) ==
    IF n = 0 THEN {<<>>}
    ELSE LET shorter == SeqsUpTo(S, n - 1) IN
         shorter \cup {Append(q, x) : q \in {r \in shorter : Len(r) = n - 1}, x \in S}

Batches == SeqsUpTo(Records, MaxBatch)

\* Record sets the zone may hold before the first call
ListedSet(name, typeName, ttl) ==
    [Name |-> <<name>>, Type |-> <<TypeString(typeName)>>, Etag |-> <<"ETAG_" \o typeName>>,
     Properties |-> <<RecordSetProperties(<<ttl>>)>>]

WithProps(set, props) == [set EXCEPT !.Properties = <<props>>]

setA ==
    LET s == ListedSet(Str_a, "A", 30) IN
    WithProps(s, [s.Properties[1] EXCEPT !.ARecords =
        <<[IPv4Address |-> "127.0.0.1"], [IPv4Address |-> "10.0.0.1"]>>])
setNs ==
    LET s == ListedSet(At, "NS", 30) IN
    WithProps(s, [s.Properties[1] EXCEPT !.NsRecords = <<[Nsdname |-> "ns1"]>>])
setTxt ==
    LET s == ListedSet(Str_b, "TXT", 30) IN
    WithProps(s, [s.Properties[1] EXCEPT !.TxtRecords = <<[Value |-> <<"x", "y">>]>>])
\* An A record set whose address is no IP literal
setBadIp ==
    LET s == ListedSet(Str_b, "A", 30) IN
    WithProps(s, [s.Properties[1] EXCEPT !.ARecords = <<[IPv4Address |-> "bad"]>>])
\* An SRV record set whose name has a single label
setBadSrv ==
    LET s == ListedSet(Str_b, "SRV", 30) IN
    WithProps(s, [s.Properties[1] EXCEPT !.SrvRecords =
        <<[Target |-> "app", Priority |-> 1, Weight |-> 10, Port |-> 5269]>>])
\* A record set of a type the provider does not know
setErr == ListedSet(Str_b, "ERR", 30)

InitZones ==
    { <<>>,
      <<setNs, setA, setTxt>>,
      <<setNs, setBadIp>>,
      <<setNs, setBadSrv>>,
      <<setNs, setErr>> }

\* Who calls the provider in a run, and with what: one caller alone with any
\* batch; all callers at once, each with one of two batches for one record
\* set; or one caller with one of these two batches and a provider made
\* with any secrets and no handle
Workloads == {"alone", "shared", "first use"}

\* A fourth workload, for the runs under fair scheduling: all callers at
\* once, each with a batch that fails at its second record, at its type or
\* at its conversion
ActiveCallers(w) == IF w \in {"shared", "contended"} THEN Callers ELSE {"c1"}

SharedBatches == {<<recA1>>, <<recA1, recA2>>}

ContendedBatches == {<<recA1, recA2>>, <<recErr>>, <<recSoaShort>>}

BatchesOf(w) ==
    CASE w = "alone" -> Batches
      [] w = "contended" -> ContendedBatches
      [] OTHER -> SharedBatches

----------------------------------------------------------------------------
(* State *)

VARIABLES
    zone,          \* the remote zone: its record sets, in listing order
    azureClient,   \* p.client.azureClient: "nil", the handle "preset" the
                   \* provider was made with, or the handle "client" that
                   \* setupClient built
    mutex,         \* p.client.mutex: "" when free, or the caller holding it
    pc,            \* where each caller is in its call
    frame,         \* each caller's call: arguments, locals and return values
    sent,          \* each caller's remote requests during its current call
    zoneAtLock,    \* the zone as it was when the mutex was last taken
    workload,      \* the workload of this run, one of Workloads
    provider,      \* the provider's TenantId, ClientId and ClientSecret
    clientsBuilt,  \* how many times setupClient has stored a client handle
    applied        \* the conversion last applied on its own, see Conversions

vars == <<zone, azureClient, mutex, pc, frame, sent, zoneAtLock, workload, provider, clientsBuilt, applied>>

BatchOps == {"AppendRecords", "SetRecords", "DeleteRecords"}

\* The secrets a provider is made with: each of TenantId, ClientId and
\* ClientSecret is empty or set
Secrets == {"", "set"}
Providers == [TenantId : Secrets, ClientId : Secrets, ClientSecret : Secrets]

\* A provider made without any of them, as getFakeProvider makes it
NoSecrets == [TenantId |-> "", ClientId |-> "", ClientSecret |-> ""]

\* A provider made with all of them
AllSecrets == [TenantId |-> "set", ClientId |-> "set", ClientSecret |-> "set"]

\* The providers without a handle of a workload
ProvidersOf(w) ==
    CASE w = "alone" -> {NoSecrets}
      [] w = "shared" -> {AllSecrets}
      [] w = "first use" -> Providers
      [] w = "contended" -> {NoSecrets}

\* No conversion has been applied on its own
NotApplied == [fn |-> "", arg |-> <<>>, result |-> <<>>]

\* pager: next is the position of the first record set of the next page,
\* more is pager.More()
NewPager == [next |-> 1, more |-> TRUE]

\* err is "" for a nil error, or says what failed: "setup" (setupClient),
\* "type" (convertStringToRecordType), "convert"
\* (convertLibdnsRecordToAzureRecordSet), "remote" (the service refused the
\* request), "transport" (the request failed on its way)
NewFrame(op, records) ==
    [err |-> "", records |-> records, recordSets |-> <<>>, op |-> op, idx |-> 1,
     results |-> <<>>, pager |-> NewPager, credentials |-> <<>>]

IdleFrame == NewFrame("", <<>>)

Init ==
    /\ zone \in InitZones
    /\ workload \in Workloads
    /\ \/ azureClient = "preset" /\ provider = NoSecrets /\ workload # "first use"
       \/ azureClient = "nil" /\ provider \in ProvidersOf(workload)
    /\ clientsBuilt = 0
    /\ applied = NotApplied
    /\ mutex = ""
    /\ pc = [c \in Callers |-> "idle"]
    /\ frame = [c \in Callers |-> IdleFrame]
    /\ sent = [c \in Callers |-> <<>>]
    /\ zoneAtLock = <<>>

----------------------------------------------------------------------------
(* The public methods: a caller starts a call *)

\* GetRecords: calls getRecords
GetRecords(c) ==
    /\ pc[c] = "idle"
    /\ frame' = [frame EXCEPT ![c] = NewFrame("GetRecords", <<>>)]
    /\ pc' = [pc EXCEPT ![c] = "lock"]
    /\ UNCHANGED <<zone, azureClient, mutex, sent, zoneAtLock, workload, provider, clientsBuilt, applied>>

\* A batch method starts its loop over records; without records it returns
\* at once
StartBatch(c, op, records) ==
    /\ pc[c] = "idle"
    /\ frame' = [frame EXCEPT ![c] = NewFrame(op, records)]
    /\ pc' = [pc EXCEPT ![c] = IF records = <<>> THEN "done" ELSE "lock"]
    /\ UNCHANGED <<zone, azureClient, mutex, sent, zoneAtLock, workload, provider, clientsBuilt, applied>>

AppendRecords(c, records) == StartBatch(c, "AppendRecords", records)
SetRecords(c, records) == StartBatch(c, "SetRecords", records)
DeleteRecords(c, records) == StartBatch(c, "DeleteRecords", records)

----------------------------------------------------------------------------
(* getRecords, createOrUpdateRecord, deleteRecord: each step of a caller *)

\* A Lock that does not wait for the mutex to be free
LockNoWait(c) ==
    /\ pc[c] = "lock"
    /\ mutex' = c
    /\ zoneAtLock' = zone
    /\ pc' = [pc EXCEPT ![c] = "setup"]
    /\ UNCHANGED <<zone, azureClient, frame, sent, workload, provider, clientsBuilt, applied>>

\* p.client.mutex.Lock()
Lock(c) ==
    /\ pc[c] = "lock"
    /\ mutex = ""
    /\ mutex' = c
    /\ zoneAtLock' = zone
    /\ pc' = [pc EXCEPT ![c] = "setup"]
    /\ UNCHANGED <<zone, azureClient, frame, sent, workload, provider, clientsBuilt, applied>>

\* A credential choice that takes the client secret only when all three
\* fields are set
selectCredentialAllSet(p) ==
    IF p.TenantId # "" /\ p.ClientId # "" /\ p.ClientSecret # ""
    THEN "ClientSecretCredential" ELSE "ManagedIdentityCredential"

\* The credential setupClient builds: a client secret credential when any
\* of TenantId, ClientId, ClientSecret is set, else a managed identity
\* credential
selectCredential(p) ==
    IF p.TenantId # "" \/ p.ClientId # "" \/ p.ClientSecret # ""
    THEN "ClientSecretCredential" ELSE "ManagedIdentityCredential"

\* What setupClient does when there is no handle: the credential cannot be
\* built; or it is built and the chained credential or the client factory
\* fails; or all is built and the handle is stored.  After an error the
\* caller goes on at onError
buildClient(c, onError) ==
    \/ /\ frame' = [frame EXCEPT ![c].err = "setup"]
       /\ pc' = [pc EXCEPT ![c] = onError]
       /\ UNCHANGED <<azureClient, clientsBuilt>>
    \/ /\ frame' = [frame EXCEPT ![c].err = "setup",
                                  ![c].credentials = <<selectCredential(provider)>>]
       /\ pc' = [pc EXCEPT ![c] = onError]
       /\ UNCHANGED <<azureClient, clientsBuilt>>
    \/ /\ frame' = [frame EXCEPT ![c].credentials = <<selectCredential(provider)>>]
       /\ azureClient' = "client"
       /\ clientsBuilt' = clientsBuilt + 1
       /\ pc' = [pc EXCEPT ![c] = "call"]

\* A setupClient that builds a client whether or not there is a handle
setupClientAlways(c) ==
    /\ pc[c] = "setup"
    /\ buildClient(c, "unlock")
    /\ UNCHANGED <<zone, mutex, sent, zoneAtLock, workload, provider, applied>>

\* A setupClient whose error the caller does not look at
setupClientErrorIgnored(c) ==
    /\ pc[c] = "setup"
    /\ IF azureClient # "nil"
       THEN /\ pc' = [pc EXCEPT ![c] = "call"]
            /\ UNCHANGED <<azureClient, clientsBuilt, frame>>
       ELSE buildClient(c, "call")
    /\ UNCHANGED <<zone, mutex, sent, zoneAtLock, workload, provider, applied>>

\* setupClient: with a handle in place nothing is done; otherwise the
\* credential and the client are built, and an error of theirs is returned
setupClient(c) ==
    /\ pc[c] = "setup"
    /\ IF azureClient # "nil"
       THEN /\ pc' = [pc EXCEPT ![c] = "call"]
            /\ UNCHANGED <<azureClient, clientsBuilt, frame>>
       ELSE buildClient(c, "unlock")
    /\ UNCHANGED <<zone, mutex, sent, zoneAtLock, workload, provider, applied>>

Request(api, i, name, recordType, failed) ==
    [i |-> i, name |-> name, recordType |-> recordType, failed |-> failed, api |-> api]

\* The page assigned where it is to be appended
replacePage(recordSets, page) == page

\* recordSets = append(recordSets, page.Value...)
appendPage(recordSets, page) == recordSets \o page

\* The records of the pages fetched so far returned along with the error
pageFailedPartial(f) ==
    [f EXCEPT !.err = "transport",
              !.results = convertAzureRecordSetsToLibdnsRecords(f.recordSets).records]

\* getRecords returns nil and the error when a page cannot be fetched
pageFailed(f) == [f EXCEPT !.err = "transport", !.results = <<>>]

\* pager.NextPage in the loop of getRecords: the request fails on its way, or
\* the service answers with the next page, of a size it chooses
NextPage(c) ==
    LET f == frame[c] IN
    /\ pc[c] = "call"
    /\ f.op = "GetRecords"
    /\ f.pager.more
    /\ \/ /\ frame' = [frame EXCEPT ![c] = pageFailed(f)]
          /\ sent' = [sent EXCEPT ![c] = Append(@, Request("List", f.pager.next, <<>>, "", TRUE))]
          /\ pc' = [pc EXCEPT ![c] = "unlock"]
       \/ \E size \in 1..MaxPageSize :
          /\ frame' = [frame EXCEPT
                 ![c].recordSets = appendPage(@, RemotePage(zone, f.pager.next, size)),
                 ![c].pager = [next |-> f.pager.next + size,
                               more |-> f.pager.next + size <= Len(zone)]]
          /\ sent' = [sent EXCEPT ![c] = Append(@, Request("List", f.pager.next, <<>>, "", FALSE))]
          /\ UNCHANGED pc
    /\ UNCHANGED <<zone, azureClient, mutex, zoneAtLock, workload, provider, clientsBuilt, applied>>

\* The end of getRecords: what it returns for the record sets of all pages
getRecordsResult(recordSets) ==
    LET converted == convertAzureRecordSetsToLibdnsRecords(recordSets) IN
    [err |-> "", records |-> converted.records]

getRecordsReturn(c) ==
    LET f == frame[c]
        r == getRecordsResult(f.recordSets)
    IN
    /\ pc[c] = "call"
    /\ f.op = "GetRecords"
    /\ ~f.pager.more
    /\ frame' = [frame EXCEPT ![c].results = r.records, ![c].err = r.err]
    /\ pc' = [pc EXCEPT ![c] = "unlock"]
    /\ UNCHANGED <<zone, azureClient, mutex, sent, zoneAtLock, workload, provider, clientsBuilt, applied>>

\* createOrUpdateRecord with the given If-None-Match value
createOrUpdateRecord(c, ifNoneMatch) ==
    LET f == frame[c]
        record == f.records[f.idx]
        typed == convertStringToRecordType(RRType(record))
        converted == convertLibdnsRecordToAzureRecordSet(record)
        name == generateRecordSetName(RRName(record), Zone)
        answer == RemoteCreateOrUpdate(zone, name, typed.recordType, converted.recordSet, ifNoneMatch)
    IN
    /\ pc[c] = "call"
    /\ pc' = [pc EXCEPT ![c] = "unlock"]
    /\ IF typed.err
       THEN /\ frame' = [frame EXCEPT ![c].err = "type"]
            /\ UNCHANGED <<zone, sent>>
       ELSE IF converted.err
       THEN /\ frame' = [frame EXCEPT ![c].err = "convert"]
            /\ UNCHANGED <<zone, sent>>
       ELSE \/ /\ frame' = [frame EXCEPT ![c].err = "transport"]
               /\ sent' = [sent EXCEPT ![c] =
                      Append(@, Request("CreateOrUpdate", f.idx, name, typed.recordType, TRUE))]
               /\ UNCHANGED zone
            \/ /\ frame' = [frame EXCEPT ![c].err = IF answer.err THEN "remote" ELSE ""]
               /\ sent' = [sent EXCEPT ![c] =
                      Append(@, Request("CreateOrUpdate", f.idx, name, typed.recordType, answer.err))]
               /\ zone' = answer.zone
    /\ UNCHANGED <<azureClient, mutex, zoneAtLock, workload, provider, clientsBuilt, applied>>

\* createRecord without its condition
createRecordUnconditional(c) ==
    /\ frame[c].op = "AppendRecords"
    /\ createOrUpdateRecord(c, "")

\* createRecord: the record set must not exist
createRecord(c) ==
    /\ frame[c].op = "AppendRecords"
    /\ createOrUpdateRecord(c, "*")

\* updateRecord with the condition of createRecord
updateRecordIfNoneMatch(c) ==
    /\ frame[c].op = "SetRecords"
    /\ createOrUpdateRecord(c, "*")

\* updateRecord: no condition
updateRecord(c) ==
    /\ frame[c].op = "SetRecords"
    /\ createOrUpdateRecord(c, "")

deleteRecord(c) ==
    LET f == frame[c]
        record == f.records[f.idx]
        typed == convertStringToRecordType(RRType(record))
        name == generateRecordSetName(RRName(record), Zone)
        answer == RemoteDelete(zone, name, typed.recordType)
    IN
    /\ pc[c] = "call"
    /\ f.op = "DeleteRecords"
    /\ pc' = [pc EXCEPT ![c] = "unlock"]
    /\ IF typed.err
       THEN /\ frame' = [frame EXCEPT ![c].err = "type"]
            /\ UNCHANGED <<zone, sent>>
       ELSE \/ /\ frame' = [frame EXCEPT ![c].err = "transport"]
               /\ sent' = [sent EXCEPT ![c] =
                      Append(@, Request("Delete", f.idx, name, typed.recordType, TRUE))]
               /\ UNCHANGED zone
            \/ /\ frame' = [frame EXCEPT ![c].err = IF answer.err THEN "remote" ELSE ""]
               /\ sent' = [sent EXCEPT ![c] =
                      Append(@, Request("Delete", f.idx, name, typed.recordType, answer.err))]
               /\ zone' = answer.zone
    /\ UNCHANGED <<azureClient, mutex, zoneAtLock, workload, provider, clientsBuilt, applied>>

\* A batch loop that calls again for the same record when its request did
\* not reach the service
AfterReturnRetry(f) ==
    IF f.op = "GetRecords"
    THEN [pc |-> "done", frame |-> [f EXCEPT !.results = IF f.err # "" THEN <<>> ELSE f.results]]
    ELSE IF f.err = "transport"
    THEN [pc |-> "lock", frame |-> [f EXCEPT !.err = ""]]
    ELSE IF f.err # ""
    THEN [pc |-> "done", frame |-> [f EXCEPT !.results = <<>>]]
    ELSE IF f.idx = Len(f.records)
    THEN [pc |-> "done", frame |-> [f EXCEPT !.results = Append(f.results, f.records[f.idx])]]
    ELSE [pc |-> "lock",
          frame |-> [f EXCEPT !.results = Append(f.results, f.records[f.idx]),
                              !.idx = f.idx + 1]]

\* A batch loop that goes on to the next record after an error
AfterReturnContinue(f) ==
    IF f.op = "GetRecords"
    THEN [pc |-> "done", frame |-> [f EXCEPT !.results = IF f.err # "" THEN <<>> ELSE f.results]]
    ELSE IF f.idx = Len(f.records)
    THEN [pc |-> "done",
          frame |-> [f EXCEPT !.results = IF f.err # "" THEN <<>> ELSE Append(f.results, f.records[f.idx])]]
    ELSE [pc |-> "lock",
          frame |-> [f EXCEPT !.results = IF f.err # "" THEN f.results ELSE Append(f.results, f.records[f.idx]),
                              !.idx = f.idx + 1, !.err = ""]]

\* What the public method does with what getRecords, createRecord,
\* updateRecord or deleteRecord returned: GetRecords returns it (no records
\* with an error); a batch method returns the error alone, or keeps the
\* record and goes on to the next one, or returns the records kept
AfterReturn(f) ==
    IF f.op = "GetRecords"
    THEN [pc |-> "done", frame |-> [f EXCEPT !.results = IF f.err # "" THEN <<>> ELSE f.results]]
    ELSE IF f.err # ""
    THEN [pc |-> "done", frame |-> [f EXCEPT !.results = <<>>]]
    ELSE IF f.idx = Len(f.records)
    THEN [pc |-> "done", frame |-> [f EXCEPT !.results = Append(f.results, f.records[f.idx])]]
    ELSE [pc |-> "lock",
          frame |-> [f EXCEPT !.results = Append(f.results, f.records[f.idx]),
                              !.idx = f.idx + 1]]

\* z without the record sets of the first n records
RECURSIVE WithoutRecords(_, _, _)
WithoutRecords(z, records, n) ==
    IF n = 0 THEN z
    ELSE LET i == IndexOfSet(z, generateRecordSetName(RRName(records[n]), Zone), RRType(records[n]), 1)
         IN  WithoutRecords(IF i = 0 THEN z ELSE RemoveAt(z, i), records, n - 1)

\* An Unlock at the end of the function instead of a deferred one: a return
\* with an error leaves the mutex locked
UnlockAtEnd(c) ==
    /\ pc[c] = "unlock"
    /\ mutex' = IF frame[c].err # "" THEN mutex ELSE ""
    /\ zoneAtLock' = <<>>
    /\ frame' = [frame EXCEPT ![c] = AfterReturn(frame[c]).frame]
    /\ pc' = [pc EXCEPT ![c] = AfterReturn(frame[c]).pc]
    /\ UNCHANGED <<zone, azureClient, sent, workload, provider, clientsBuilt, applied>>

\* A batch method that holds the mutex until its last record is done
UnlockAfterBatch(c) ==
    /\ pc[c] = "unlock"
    /\ mutex' = IF AfterReturn(frame[c]).pc = "lock" THEN mutex ELSE ""
    /\ zoneAtLock' = <<>>
    /\ frame' = [frame EXCEPT ![c] = AfterReturn(frame[c]).frame]
    /\ pc' = [pc EXCEPT ![c] = AfterReturn(frame[c]).pc]
    /\ UNCHANGED <<zone, azureClient, sent, workload, provider, clientsBuilt, applied>>

\* A return that undoes the earlier records of a batch when one fails
UnlockRollingBack(c) ==
    /\ pc[c] = "unlock"
    /\ mutex' = ""
    /\ zoneAtLock' = <<>>
    /\ frame' = [frame EXCEPT ![c] = AfterReturn(frame[c]).frame]
    /\ pc' = [pc EXCEPT ![c] = AfterReturn(frame[c]).pc]
    /\ zone' = IF frame[c].op \in BatchOps /\ frame[c].err # ""
               THEN WithoutRecords(zone, frame[c].records, frame[c].idx - 1)
               ELSE zone
    /\ UNCHANGED <<azureClient, sent, workload, provider, clientsBuilt, applied>>

\* The deferred p.client.mutex.Unlock() as the function returns to the
\* public method
Unlock(c) ==
    /\ pc[c] = "unlock"
    /\ mutex' = ""
    /\ zoneAtLock' = <<>>
    /\ frame' = [frame EXCEPT ![c] = AfterReturn(frame[c]).frame]
    /\ pc' = [pc EXCEPT ![c] = AfterReturn(frame[c]).pc]
    /\ UNCHANGED <<zone, azureClient, sent, workload, provider, clientsBuilt, applied>>

\* The public method has returned; the caller is free for its next call
Return(c) ==
    /\ pc[c] = "done"
    /\ pc' = [pc EXCEPT ![c] = "idle"]
    /\ frame' = [frame EXCEPT ![c] = IdleFrame]
    /\ sent' = [sent EXCEPT ![c] = <<>>]
    /\ UNCHANGED <<zone, azureClient, mutex, zoneAtLock, workload, provider, clientsBuilt, applied>>

Next ==
    \E c \in ActiveCallers(workload) :
        \/ GetRecords(c)
        \/ \E records \in BatchesOf(workload) : AppendRecords(c, records)
        \/ \E records \in BatchesOf(workload) : SetRecords(c, records)
        \/ \E records \in BatchesOf(workload) : DeleteRecords(c, records)
        \/ Lock(c)
        \/ setupClient(c)
        \/ NextPage(c)
        \/ getRecordsReturn(c)
        \/ createRecord(c)
        \/ updateRecord(c)
        \/ deleteRecord(c)
        \/ Unlock(c)
        \/ Return(c)

Spec == Init /\ [][Next]_vars

\* Scheduling.  Every goroutine that can take a step takes one: a call of
\* the service is answered (by a result or an error), and a function that
\* has its answer returns, which runs its deferred Unlock.  A goroutine
\* blocked in mutex.Lock() is not overtaken for ever: a sync.Mutex hands the
\* lock to a waiter that has waited long (starvation mode), so a caller for
\* which the mutex is free again and again gets it.  Whether a caller starts
\* another operation is up to the caller
Fairness ==
    \A c \in Callers :
        /\ SF_vars(Lock(c))
        /\ WF_vars(setupClient(c))
        /\ WF_vars(NextPage(c))
        /\ WF_vars(getRecordsReturn(c))
        /\ WF_vars(createRecord(c))
        /\ WF_vars(updateRecord(c))
        /\ WF_vars(deleteRecord(c))
        /\ WF_vars(Unlock(c))
        /\ WF_vars(Return(c))

\* The runs under fair scheduling start from an empty zone, with callers
\* that contend for a provider with a handle or with one caller at the first
\* use of a provider without one
FairInit ==
    /\ zone = <<>>
    /\ \/ workload = "contended" /\ azureClient = "preset" /\ provider = NoSecrets
       \/ workload = "first use" /\ azureClient = "nil" /\ provider \in ProvidersOf(workload)
    /\ clientsBuilt = 0
    /\ applied = NotApplied
    /\ mutex = ""
    /\ pc = [c \in Callers |-> "idle"]
    /\ frame = [c \in Callers |-> IdleFrame]
    /\ sent = [c \in Callers |-> <<>>]
    /\ zoneAtLock = <<>>

FairSpec == FairInit /\ [][Next]_vars /\ Fairness

----------------------------------------------------------------------------
(* Properties *)

\* The record a caller's createRecord, updateRecord or deleteRecord is given
Current(c) == frame[c].records[frame[c].idx]

\* The relative name and the type of the record set a record belongs to
KeyName(record) == generateRecordSetName(RRName(record), Zone)
KeyType(record) == RRType(record)

\* The record set of zone z with this name and type
SetOf(z, name, recordType) == z[IndexOfSet(z, name, recordType, 1)]

SameKey(set, name, recordType) ==
    set.Name = <<name>> /\ set.Type = <<TypeString(recordType)>>

\* z without the record set of this name and type
Without(z, name, recordType) ==
    SelectSeq(z, LAMBDA set : ~SameKey(set, name, recordType))

\* The caller's createRecord, updateRecord or deleteRecord has run and is
\* about to return
Returning(c, op) ==
    /\ pc[c] = "unlock"
    /\ frame[c].op = op
    /\ frame[c].err # "setup"

\* C1: createRecord (and so each record of AppendRecords) fails with an
\* error and leaves the zone as it was when the zone holds a record set with
\* the record's relative name and type; it succeeds only when there is none.
C1_CreateFailsWhenSetExists ==
    \A c \in Callers :
        Returning(c, "AppendRecords") =>
            LET exists == HasSet(zoneAtLock, KeyName(Current(c)), KeyType(Current(c))) IN
            /\ exists => frame[c].err # "" /\ zone = zoneAtLock
            /\ frame[c].err = "" => ~exists

\* createRecord was refused by the service for a record set that exists
C1_Witness ==
    \E c \in Callers :
        /\ Returning(c, "AppendRecords")
        /\ HasSet(zoneAtLock, KeyName(Current(c)), KeyType(Current(c)))
        /\ frame[c].err = "remote"

\* C2: updateRecord (each record of SetRecords) is never refused by the
\* service, whether the record set exists or not, and when it succeeds the
\* zone's record set of the record's name and type holds the TTL and payload
\* of the record, every other record set being as before.
C2_UpdateWritesUnconditionally ==
    \A c \in Callers :
        Returning(c, "SetRecords") =>
            LET name == KeyName(Current(c))
                recordType == KeyType(Current(c))
            IN
            /\ frame[c].err \in {"", "type", "convert", "transport"}
            /\ frame[c].err = "" =>
                /\ HasSet(zone, name, recordType)
                /\ SetOf(zone, name, recordType).Properties =
                       convertLibdnsRecordToAzureRecordSet(Current(c)).recordSet.Properties
                /\ Without(zone, name, recordType) = Without(zoneAtLock, name, recordType)
            /\ frame[c].err # "" => zone = zoneAtLock

\* updateRecord succeeded on a record set that existed with another payload
C2_Witness ==
    \E c \in Callers :
        /\ Returning(c, "SetRecords")
        /\ frame[c].err = ""
        /\ HasSet(zoneAtLock, KeyName(Current(c)), KeyType(Current(c)))
        /\ SetOf(zoneAtLock, KeyName(Current(c)), KeyType(Current(c))).Properties #
               SetOf(zone, KeyName(Current(c)), KeyType(Current(c))).Properties

\* The request a batch method makes for its j-th record
RequestFor(f, j, request) ==
    /\ request.i = j
    /\ request.api = (IF f.op = "DeleteRecords" THEN "Delete" ELSE "CreateOrUpdate")
    /\ request.name = KeyName(f.records[j])
    /\ request.recordType = KeyType(f.records[j])

\* C3: AppendRecords, SetRecords and DeleteRecords take their records in
\* order, one request each, and stop at the first record that fails: the
\* records before it were all requested and answered, no request is made
\* for a later record, and the call returns the error with no records.
\* Without a failure every record is requested and all are returned.
C3_BatchStopsAtFirstError ==
    \A c \in Callers :
        LET f == frame[c]
            n == Len(sent[c])
        IN  f.op \in BatchOps =>
            /\ \A j \in 1..n : j <= f.idx /\ RequestFor(f, j, sent[c][j])
            /\ pc[c] = "done" /\ f.err # "" =>
                /\ f.results = <<>>
                /\ n = (IF f.err \in {"remote", "transport"} THEN f.idx ELSE f.idx - 1)
                /\ \A j \in 1..n : sent[c][j].failed = (j = f.idx)
            /\ pc[c] = "done" /\ f.err = "" =>
                /\ f.results = f.records
                /\ n = Len(f.records)
                /\ \A j \in 1..n : ~sent[c][j].failed

\* A batch has returned an error for a record that is not its last
C3_Witness ==
    \E c \in Callers :
        /\ pc[c] = "done"
        /\ frame[c].op \in BatchOps
        /\ frame[c].err # ""
        /\ frame[c].idx < Len(frame[c].records)

\* What record i of a batch did to the zone is still there: the record set
\* it wrote (unless a later record before position k wrote it again), or the
\* absence of the record set it deleted
EffectRemains(f, i, k) ==
    LET name == KeyName(f.records[i])
        recordType == KeyType(f.records[i])
        rewritten == \E j \in (i + 1)..(k - 1) :
                        /\ KeyName(f.records[j]) = name
                        /\ KeyType(f.records[j]) = recordType
    IN  IF f.op = "DeleteRecords" THEN ~HasSet(zone, name, recordType)
        ELSE rewritten \/
             /\ HasSet(zone, name, recordType)
             /\ SetOf(zone, name, recordType).Properties =
                    convertLibdnsRecordToAzureRecordSet(f.records[i]).recordSet.Properties

\* C4: when a batch of the only caller of the provider fails at its k-th
\* record, what records 1..k-1 did to the zone is still there when the call
\* has returned: nothing is rolled back.
C4_NoRollback ==
    \A c \in Callers :
        LET f == frame[c] IN
        (/\ ActiveCallers(workload) = {c}
         /\ pc[c] = "done"
         /\ f.op \in BatchOps
         /\ f.err # "") =>
            \A i \in 1..(f.idx - 1) : EffectRemains(f, i, f.idx)

\* AppendRecords failed at its second record and the record set its first
\* record created is in the zone
C4_Witness ==
    \E c \in Callers :
        /\ ActiveCallers(workload) = {c}
        /\ pc[c] = "done"
        /\ frame[c].op = "AppendRecords"
        /\ frame[c].err # ""
        /\ frame[c].idx = 2
        /\ HasSet(zone, KeyName(frame[c].records[1]), KeyType(frame[c].records[1]))

\* C5: deleteRecord goes by the record's relative name and type alone: when
\* it succeeds the zone is the zone as it was without the record set of that
\* name and type, whatever that record set held and whatever the record's
\* value and TTL; when it fails the zone is as it was.
C5_DeleteByNameAndType ==
    \A c \in Callers :
        Returning(c, "DeleteRecords") =>
            /\ frame[c].err = "" =>
                   zone = Without(zoneAtLock, KeyName(Current(c)), KeyType(Current(c)))
            /\ frame[c].err # "" => zone = zoneAtLock

\* deleteRecord removed a record set of two addresses and left others
C5_Witness ==
    \E c \in Callers :
        /\ Returning(c, "DeleteRecords")
        /\ frame[c].err = ""
        /\ HasSet(zoneAtLock, KeyName(Current(c)), KeyType(Current(c)))
        /\ Len(SetOf(zoneAtLock, KeyName(Current(c)), KeyType(Current(c))).Properties[1].ARecords) = 2
        /\ Len(zone) = Len(zoneAtLock) - 1
        /\ Len(zone) >= 2

\* C6: deleteRecord for a record whose name and type have no record set in
\* the zone succeeds (when the service is reached) and leaves the zone as it
\* was; and after any successful deleteRecord there is no such record set,
\* so deleting the same record again is that case.
C6_DeleteAbsentSucceeds ==
    \A c \in Callers :
        Returning(c, "DeleteRecords") =>
            LET name == KeyName(Current(c))
                recordType == KeyType(Current(c))
            IN
            /\ (~HasSet(zoneAtLock, name, recordType) /\ frame[c].err \notin {"type", "transport"}) =>
                   frame[c].err = "" /\ zone = zoneAtLock
            /\ frame[c].err = "" => ~HasSet(zone, name, recordType)

\* The second of two deleteRecord calls in a row for the same record set has
\* succeeded
C6_Witness ==
    \E c \in Callers :
        /\ ActiveCallers(workload) = {c}
        /\ Returning(c, "DeleteRecords")
        /\ frame[c].idx = 2
        /\ KeyName(frame[c].records[1]) = KeyName(frame[c].records[2])
        /\ KeyType(frame[c].records[1]) = KeyType(frame[c].records[2])
        /\ frame[c].err = ""
        /\ zone = zoneAtLock

\* C7: when getRecords has fetched every page without an error, the record
\* sets it holds are those of the zone, each once and in the order of the
\* listing, the pages were requested one after the other from the first,
\* and the records returned are those of the record sets in that order.
C7_ListReturnsAllPages ==
    \A c \in Callers :
        (pc[c] = "unlock" /\ frame[c].op = "GetRecords" /\ frame[c].err = "") =>
            /\ frame[c].recordSets = zone
            /\ ~frame[c].pager.more
            /\ Len(sent[c]) >= 1
            /\ sent[c][1].i = 1
            /\ \A j \in 1..(Len(sent[c]) - 1) : sent[c][j].i < sent[c][j + 1].i
            /\ \A j \in 1..Len(sent[c]) : ~sent[c][j].failed
            /\ ~convertAzureRecordSetsToLibdnsRecords(zone).err =>
                   /\ frame[c].results = convertAzureRecordSetsToLibdnsRecords(zone).records
                   /\ AfterReturn(frame[c]).frame.results = frame[c].results

\* getRecords returns the records of a listing of several pages
C7_Witness ==
    \E c \in Callers :
        /\ pc[c] = "unlock"
        /\ frame[c].op = "GetRecords"
        /\ frame[c].err = ""
        /\ Len(sent[c]) >= 2
        /\ Len(frame[c].results) >= 3

\* C8: a page request of getRecords that fails is its last request: the
\* call stops there and returns that error and no records, whatever the
\* pages before it held.
C8_ListStopsAtPageError ==
    \A c \in Callers :
        frame[c].op = "GetRecords" =>
            \A j \in 1..Len(sent[c]) :
                sent[c][j].failed =>
                    /\ j = Len(sent[c])
                    /\ pc[c] \in {"unlock", "done"}
                    /\ frame[c].err = "transport"
                    /\ frame[c].results = <<>>

\* getRecords failed on a later page, with record sets of earlier pages
\* in hand
C8_Witness ==
    \E c \in Callers :
        /\ pc[c] = "unlock"
        /\ frame[c].op = "GetRecords"
        /\ frame[c].err = "transport"
        /\ Len(sent[c]) >= 2
        /\ ~convertAzureRecordSetsToLibdnsRecords(frame[c].recordSets).err
        /\ convertAzureRecordSetsToLibdnsRecords(frame[c].recordSets).records # <<>>

\* C9: when the conversion of the listed record sets fails, getRecords
\* returns an error.  (The code drops the error of the conversion: this is
\* violated.)
C9_ConversionErrorReturned ==
    \A c \in Callers :
        (/\ pc[c] = "unlock"
         /\ frame[c].op = "GetRecords"
         /\ ~frame[c].pager.more
         /\ convertAzureRecordSetsToLibdnsRecords(frame[c].recordSets).err) =>
            frame[c].err # ""

InCriticalSection(c) == pc[c] \in {"setup", "call", "unlock"}

\* C10: a caller between Lock and Unlock (at setupClient, at its remote
\* requests, or about to return) holds the mutex, so at most one caller is
\* there at any time.
C10_MutualExclusion ==
    /\ \A c \in Callers : InCriticalSection(c) => mutex = c
    /\ \A c1, c2 \in Callers : InCriticalSection(c1) /\ InCriticalSection(c2) => c1 = c2
    /\ mutex # "" => InCriticalSection(mutex)

\* A caller is listing, one page fetched, while another waits for the mutex
C10_Witness ==
    \E c1, c2 \in Callers :
        /\ pc[c1] = "call"
        /\ frame[c1].op = "GetRecords"
        /\ Len(sent[c1]) = 1
        /\ frame[c1].pager.more
        /\ pc[c2] = "lock"

\* C11: the client handle is built at most once: a step never changes a
\* handle that is in place, be it the one the provider was made with or one
\* setupClient stored, and never stores a second one, whatever the callers
\* and their order.
C11_ClientBuiltOnce ==
    [][/\ azureClient # "nil" => azureClient' = azureClient
       /\ clientsBuilt' <= 1]_vars

\* A caller that built nothing has passed setupClient with the handle
\* another call stored
C11_Witness ==
    \E c \in Callers :
        /\ pc[c] = "call"
        /\ azureClient = "client"
        /\ clientsBuilt = 1
        /\ frame[c].credentials = <<>>

\* C12: the credentials setupClient builds are exactly one: a managed
\* identity credential when TenantId, ClientId and ClientSecret are all
\* empty, a client secret credential when any of them is set.
C12_OneCredentialStrategy ==
    \A c \in Callers :
        frame[c].credentials # <<>> =>
            /\ Len(frame[c].credentials) = 1
            /\ frame[c].credentials[1] =
                   (IF provider.TenantId = "" /\ provider.ClientId = "" /\ provider.ClientSecret = ""
                    THEN "ManagedIdentityCredential"
                    ELSE "ClientSecretCredential")

\* A client secret credential was built for a provider with only its
\* ClientSecret set
C12_Witness ==
    \E c \in Callers :
        /\ frame[c].credentials = <<"ClientSecretCredential">>
        /\ provider.TenantId = ""
        /\ provider.ClientId = ""
        /\ provider.ClientSecret # ""
        /\ azureClient = "client"

\* C13: when setupClient fails, the call is over: it goes on to return that
\* error, with the mutex held until then and still no handle; it has made no
\* request for its record (or its listing), the zone is as it was, it does
\* not come back to setupClient, and the public method returns no records.
C13_SetupErrorReturned ==
    \A c \in Callers :
        LET f == frame[c] IN
        f.err = "setup" =>
            /\ pc[c] \in {"unlock", "done"}
            /\ Len(sent[c]) = (IF f.op = "GetRecords" THEN 0 ELSE f.idx - 1)
            /\ \A j \in 1..Len(sent[c]) : ~sent[c][j].failed
            /\ pc[c] = "unlock" => mutex = c /\ azureClient = "nil" /\ zone = zoneAtLock
            /\ pc[c] = "done" => f.results = <<>>

\* A batch of two records has returned the error of setupClient without a
\* request
C13_Witness ==
    \E c \in Callers :
        /\ pc[c] = "done"
        /\ frame[c].op \in BatchOps
        /\ frame[c].err = "setup"
        /\ Len(frame[c].records) = 2
        /\ sent[c] = <<>>

----------------------------------------------------------------------------
(* The conversions applied on their own, as the unit tests apply them:     *)
(* inputs                                                                   *)

\* Most payload entries in a record set of the inputs
MaxEntries == 2

\* Most record sets in a list of the inputs
MaxSets == 2

\* The zone "e.c.", which is given with and without its last dot
Zone_e_c == <<"e", ".", "c", ".">>

InputZones == {Zone, Zone_e_c, <<"e", ".", "c">>}

\* Relative names: "t" and "s.t"
RelNames == {<<"t">>, <<"s", ".", "t">>}

\* The names given to generateRecordSetName for a zone: none, "@", ".", the
\* zone itself, the relative names as they are, with a dot, and in the zone
\* without and with the last dot, and "t" directly followed by the zone's
\* text
NamesFor(z) ==
    LET zoneName == TrimSuffix(z, Dot) IN
    {<<>>, At, Dot, zoneName, zoneName \o Dot, <<"t">> \o zoneName}
        \cup RelNames
        \cup {r \o Dot : r \in RelNames}
        \cup {r \o Dot \o zoneName : r \in RelNames}
        \cup {r \o Dot \o zoneName \o Dot : r \in RelNames}

InputNames == UNION {{[zone |-> z, name |-> n] : n \in NamesFor(z)} : z \in InputZones}

\* Type names: the ten of the provider, and others
InputTypeNames == RecordTypes \cup {"ERR", "", "a", "ptr", "soa", "Ptr", "txt"}

\* TTLs of records: none, 30 s, 1.5 s
InputTTLs == {0, 30 * Second, Second + (Second \div 2)}

\* SOA data: fields joined by single spaces
SoaFields ==
    <<<<"n">>, <<"h">>, NatDigits(1), NatDigits(7200), NatDigits(900), NatDigits(1209600),
      NatDigits(86400)>>

InputSoaData ==
    { Join(SoaFields, Space),
      Join([SoaFields EXCEPT ![3] = <<"x">>], Space),
      Join([SoaFields EXCEPT ![3] = <<"0", "0", "7">>], Space),
      Join([SoaFields EXCEPT ![3] = <<"-", "0">>], Space),
      \* a serial number at the limit of an int64, and beyond it on either side
      Join([SoaFields EXCEPT ![3] = MaxInt64.mag], Space),
      Join([SoaFields EXCEPT ![3] = MinInt64.mag], Space),
      Join([SoaFields EXCEPT ![3] = <<"-">> \o MinInt64.mag], Space),
      Join([SoaFields EXCEPT ![3] = <<"-", "1">> \o MaxInt64.mag,
                             ![7] = <<"1">> \o MaxInt64.mag], Space),
      Join(SoaFields \o <<<<"9">>>>, Space),
      Join(SubSeq(SoaFields, 1, 6), Space),
      \* two spaces between the first two fields
      Join(<<SoaFields[1], <<>>>> \o Tail(SoaFields), Space),
      <<>> }

\* libdns records with a relative name
InputRecords ==
    LET names == {<<"t">>, At} IN
    {Address(n, ttl, MustParseAddr(ip)) : n \in names, ttl \in InputTTLs, ip \in {"127.0.0.1", "::1"}}
    \cup {CAA(n, ttl, flags, "issue", "ca") : n \in names, ttl \in InputTTLs, flags \in {0, 128, 255}}
    \cup {CNAME(n, ttl, "target") : n \in names, ttl \in InputTTLs}
    \cup {MX(n, ttl, preference, "mail") : n \in names, ttl \in InputTTLs, preference \in {0, 10, 65535}}
    \cup {NS(n, ttl, "ns1") : n \in names, ttl \in InputTTLs}
    \cup {SRV(<<"s">>, <<"p">>, n, ttl, 1, 10, port, "app") :
              n \in names, ttl \in InputTTLs, port \in {0, 5269, 65535}}
    \cup {TXT(n, ttl, text) : n \in names, ttl \in InputTTLs, text \in {"hello", ""}}
    \cup {RR(n, ttl, type, <<"p">>) : n \in names, ttl \in InputTTLs, type \in {"PTR", "ptr", "ERR"}}
    \cup {RR(n, 30 * Second, type, data) : n \in names, type \in {"SOA", "soa"}, data \in InputSoaData}

\* libdns.RR records of type A and AAAA, given as they are: the data is an
\* address of the type's family, of the other family, or no address
InputRawRecords ==
    {RR(<<"t">>, 30 * Second, type, <<data>>) :
         type \in {"A", "AAAA"}, data \in {"127.0.0.1", "::1", "bad"}}

\* A record set with one field of its properties set
WithField(set, field, value) == WithProps(set, [set.Properties[1] EXCEPT ![field] = value])

\* Names of SRV record sets: "_s._p.t", "_s._p", "_s._p.a.b", "s.p.t",
\* "__s._p.t", "_s"
InputSrvNames ==
    { <<"_", "s", ".", "_", "p", ".", "t">>,
      <<"_", "s", ".", "_", "p">>,
      <<"_", "s", ".", "_", "p", ".", "a", ".", "b">>,
      <<"s", ".", "p", ".", "t">>,
      <<"_", "_", "s", ".", "_", "p", ".", "t">>,
      <<"_", "s">> }

InputSoaRecords ==
    {[Host |-> <<"n">>, Email |-> <<"h">>, SerialNumber |-> serial,
      RefreshTime |-> Int64(7200), RetryTime |-> Int64(900), ExpireTime |-> Int64(1209600),
      MinimumTTL |-> Int64(86400)] :
         serial \in {Int64(0), Int64(1), Int64(2147483647), MaxInt64}}

\* Azure record sets as the service lists them, of every type, with up to
\* MaxEntries payload entries
InputRecordSets ==
    LET Entries(S) == SeqsUpTo(S, MaxEntries)
        Sets(typeName) == {ListedSet(<<"t">>, typeName, ttl) : ttl \in {0, 30}}
    IN
    {WithField(s, "ARecords", es) : s \in Sets("A"),
         es \in Entries({[IPv4Address |-> ip] : ip \in {"127.0.0.1", "10.0.0.1", "bad"}})}
    \cup {WithField(s, "AaaaRecords", es) : s \in Sets("AAAA"),
         es \in Entries({[IPv6Address |-> ip] : ip \in {"::1", "0::1"}})}
    \cup {WithField(s, "CaaRecords", es) : s \in Sets("CAA"),
         es \in Entries({[Flags |-> flags, Tag |-> "issue", Value |-> "ca"] : flags \in {0, 255, 256, -1}})}
    \cup {WithField(s, "CnameRecord", <<[Cname |-> "target"]>>) : s \in Sets("CNAME")}
    \cup {WithField(s, "MxRecords", es) : s \in Sets("MX"),
         es \in Entries({[Preference |-> preference, Exchange |-> "mail"] : preference \in {10, 65546}})}
    \cup {WithField(s, "NsRecords", es) : s \in Sets("NS"),
         es \in Entries({[Nsdname |-> target] : target \in {"ns1", "ns2"}})}
    \cup {WithField(s, "PtrRecords", es) : s \in Sets("PTR"),
         es \in Entries({[Ptrdname |-> <<"p">>]})}
    \cup {WithField(ListedSet(n, "SRV", 30), "SrvRecords", es) : n \in InputSrvNames,
         es \in Entries({[Target |-> "app", Priority |-> 1, Weight |-> 10, Port |-> port] :
                            port \in {5269, 70000}})}
    \cup {WithField(s, "TxtRecords", es) : s \in Sets("TXT"),
         es \in Entries({[Value |-> v] : v \in {<<>>, <<"x">>, <<"x", "y">>}})}
    \cup {WithField(s, "SoaRecord", <<soa>>) : s \in Sets("SOA"), soa \in InputSoaRecords}
    \cup Sets("ERR")

\* The lists of record sets given to convertAzureRecordSetsToLibdnsRecords:
\* each record set on its own, and the lists of up to MaxSets of six of them
InputRecordSetLists ==
    {<<s>> : s \in InputRecordSets}
        \cup SeqsUpTo({setA, setNs, setTxt, setBadIp, setBadSrv, setErr}, MaxSets)

----------------------------------------------------------------------------
(* The conversions applied on their own: one action per function.  applied *)
(* holds the function, its argument and what it returned; the provider is  *)
(* idle all along.                                                         *)

providerVars ==
    <<zone, azureClient, mutex, pc, frame, sent, zoneAtLock, workload, provider, clientsBuilt>>

ConversionsInit ==
    /\ applied = NotApplied
    /\ zone = <<>>
    /\ azureClient = "preset"
    /\ provider = NoSecrets
    /\ clientsBuilt = 0
    /\ mutex = ""
    /\ pc = [c \in Callers |-> "idle"]
    /\ frame = [c \in Callers |-> IdleFrame]
    /\ sent = [c \in Callers |-> <<>>]
    /\ zoneAtLock = <<>>
    /\ workload = "alone"

Applied(fn, arg, result) ==
    /\ applied' = [fn |-> fn, arg |-> arg, result |-> result]
    /\ UNCHANGED providerVars

ApplyGenerateRecordSetName ==
    \E in \in InputNames :
        Applied("generateRecordSetName", in, generateRecordSetName(in.name, in.zone))

ApplyConvertStringToRecordType ==
    \E typeName \in InputTypeNames :
        Applied("convertStringToRecordType", typeName, convertStringToRecordType(typeName))

ApplyConvertLibdnsRecordToAzureRecordSet ==
    \E record \in InputRecords :
        Applied("convertLibdnsRecordToAzureRecordSet", record,
                convertLibdnsRecordToAzureRecordSet(record))

ApplyConvertAzureRecordSetsToLibdnsRecords ==
    \E recordSets \in InputRecordSetLists :
        Applied("convertAzureRecordSetsToLibdnsRecords", recordSets,
                convertAzureRecordSetsToLibdnsRecords(recordSets))

\* The record set made of a record is stored by the service under the
\* record's name and type, as createOrUpdateRecord asks, and converted back
RecordRoundTrip ==
    LET record == applied.arg
        typed == convertStringToRecordType(RRType(record))
        stored == StoredSet(generateRecordSetName(RRName(record), Zone), typed.recordType,
                            applied.result.recordSet)
    IN
    /\ applied.fn = "convertLibdnsRecordToAzureRecordSet"
    /\ ~applied.result.err
    /\ ~typed.err
    /\ Applied("record round trip", record, convertAzureRecordSetsToLibdnsRecords(<<stored>>))

\* The one record made of a record set is converted back
RecordSetRoundTrip ==
    /\ applied.fn = "convertAzureRecordSetsToLibdnsRecords"
    /\ Len(applied.arg) = 1
    /\ ~applied.result.err
    /\ Len(applied.result.records) = 1
    /\ Applied("record set round trip", applied.arg[1],
               convertLibdnsRecordToAzureRecordSet(applied.result.records[1]))

\* What createOrUpdateRecord passes to CreateOrUpdate for a record it
\* accepts: the record type of rr.Type and the record set of the record
createOrUpdateParameters ==
    \E record \in InputRecords \cup InputRawRecords :
        LET typed == convertStringToRecordType(RRType(record))
            converted == convertLibdnsRecordToAzureRecordSet(record)
        IN
        /\ ~typed.err
        /\ ~converted.err
        /\ Applied("createOrUpdateRecord", record,
                   [recordType |-> typed.recordType, parameters |-> converted.recordSet])

ConversionsNext ==
    \/ ApplyGenerateRecordSetName
    \/ ApplyConvertStringToRecordType
    \/ ApplyConvertLibdnsRecordToAzureRecordSet
    \/ ApplyConvertAzureRecordSetsToLibdnsRecords
    \/ RecordRoundTrip
    \/ RecordSetRoundTrip
    \/ createOrUpdateParameters

Conversions == ConversionsInit /\ [][ConversionsNext]_vars

\* The conversion last applied is fn
Is(fn) == applied.fn = fn


----------------------------------------------------------------------------
(* Properties of the conversions *)

\* C14: generateRecordSetName(name, zone) is "@" when name is empty, "@", or
\* the zone (with or without its last dot), and is the relative name when
\* name is that relative name as it is, or followed by the zone with or
\* without the last dot; the result is never the empty string
C14_RelativeNameOrApex ==
    Is("generateRecordSetName") =>
        LET name == applied.arg.name
            zoneName == TrimSuffix(applied.arg.zone, Dot)
            result == applied.result
        IN
        /\ result # <<>>
        /\ name \in {<<>>, At, zoneName, zoneName \o Dot} => result = At
        /\ \A rel \in RelNames :
               name \in {rel, rel \o Dot \o zoneName, rel \o Dot \o zoneName \o Dot}
                   => result = rel

\* "t.e.c", absolute without the last dot, has given "t" for the zone "e.c."
C14_Witness ==
    /\ Is("generateRecordSetName")
    /\ applied.arg.zone = Zone_e_c
    /\ applied.arg.name = <<"t", ".", "e", ".", "c">>
    /\ applied.result = <<"t">>


\* C15: convertStringToRecordType gives each of the ten type names, matched
\* exactly in upper case, the record type of that name, and fails for every
\* other string with an error that names it; a record set or a record of a
\* type that is not one of the ten fails in
\* convertAzureRecordSetsToLibdnsRecords and in
\* convertLibdnsRecordToAzureRecordSet
C15_UnsupportedTypeFails ==
    /\ Is("convertStringToRecordType") =>
           IF applied.arg \in RecordTypes
           THEN ~applied.result.err /\ applied.result.recordType = applied.arg
           ELSE /\ applied.result.err
                /\ applied.result.msg = <<"the type ", applied.arg, " cannot be interpreted">>
    /\ Is("convertAzureRecordSetsToLibdnsRecords") =>
           ((\E i \in 1..Len(applied.arg) :
                 TrimTypePrefix(applied.arg[i].Type[1]) \notin RecordTypes)
                => applied.result.err)
    /\ Is("convertLibdnsRecordToAzureRecordSet") =>
           (RRType(applied.arg) \notin RecordTypes => applied.result.err)


\* C16: a record of a supported type, converted by
\* convertLibdnsRecordToAzureRecordSet, given its relative name and type, and
\* converted back by convertAzureRecordSetsToLibdnsRecords, comes back as
\* exactly one record with the same name, TTL and payload fields (for SOA,
\* the same fields in the same order)
C16_RecordRoundTrip ==
    Is("record round trip") /\ RRType(applied.arg) \in RecordTypes =>
        /\ ~applied.result.err
        /\ applied.result.records = <<applied.arg>>


\* The payload entries of a record set, of whatever type
PayloadOf(recordSet) ==
    LET p == recordSet.Properties[1] IN
    p.ARecords \o p.AaaaRecords \o p.CaaRecords \o p.CnameRecord \o p.MxRecords
        \o p.NsRecords \o p.PtrRecords \o p.SoaRecord \o p.SrvRecords \o p.TxtRecords

\* C17: an Azure record set of a supported type with one payload entry,
\* converted to a record and back to a record set, has the same TTL and the
\* same payload field values, whatever the values of its numeric fields
C17_RecordSetRoundTrip ==
    Is("record set round trip") /\ Len(PayloadOf(applied.arg)) = 1 =>
        /\ ~applied.result.err
        /\ applied.result.recordSet.Properties = applied.arg.Properties


\* The number of payload entries of the record sets before the i-th
RECURSIVE EntriesBefore(_, _)
EntriesBefore(recordSets, i) ==
    IF i = 1 THEN 0
    ELSE EntriesBefore(recordSets, i - 1) + Len(PayloadOf(recordSets[i - 1]))

\* C18: convertAzureRecordSetsToLibdnsRecords, when it succeeds, yields one
\* record per payload entry of each record set (one for a CNAME or SOA set),
\* in the order of the record sets and of their entries, each of the set's
\* type and TTL and, but for SRV, of the set's name
C18_OneRecordPerEntry ==
    Is("convertAzureRecordSetsToLibdnsRecords") /\ ~applied.result.err =>
        LET recordSets == applied.arg
            records == applied.result.records
        IN
        /\ Len(records) = EntriesBefore(recordSets, Len(recordSets) + 1)
        /\ \A i \in 1..Len(recordSets) :
               \A k \in 1..Len(PayloadOf(recordSets[i])) :
                   LET record == records[EntriesBefore(recordSets, i) + k]
                       entry == PayloadOf(recordSets[i])[k]
                   IN
                   /\ RRType(record) = TrimTypePrefix(recordSets[i].Type[1])
                   /\ record.TTL = TTLDuration(recordSets[i])
                   /\ record.kind # "SRV" => record.Name = recordSets[i].Name[1]
                   /\ record.kind = "NS" => record.Target = entry.Nsdname
                   /\ record.kind = "MX" => record.Target = entry.Exchange
                   /\ record.kind = "Address" => record.IP = ParseAddr(entry[IF record.IP.is6 THEN "IPv6Address" ELSE "IPv4Address"]).addr


SoaWords(data) == SelectSeq(Split(data, " "), LAMBDA word : word # <<>>)

\* C20: convertLibdnsRecordToAzureRecordSet accepts a SOA record only when
\* its data holds exactly 7 fields between whitespace, which are then, in
\* order, the host, the email, and the serial number, refresh time, retry
\* time, expire time and minimum TTL; with fewer fields it fails and gives no
\* record set
C20_SoaSevenFields ==
    (/\ Is("convertLibdnsRecordToAzureRecordSet")
     /\ applied.arg.kind = "RR"
     /\ applied.arg.Type = "SOA") =>
        LET words == SoaWords(applied.arg.Data)
            result == applied.result
        IN
        /\ ~result.err => Len(words) = 7
        /\ Len(words) < 7 => result.err /\ result.recordSet = EmptyRecordSet
        /\ ~result.err /\ Len(words) = 7 =>
               LET soa == result.recordSet.Properties[1].SoaRecord[1] IN
               /\ soa.Host = words[1]
               /\ soa.Email = words[2]
               /\ \A i \in 3..7 : ~ParseInt(words[i]).err =>
                      <<soa.SerialNumber, soa.RefreshTime, soa.RetryTime, soa.ExpireTime,
                        soa.MinimumTTL>>[i - 2] = ParseInt(words[i]).value


\* The payload field of the properties that belongs to each record type
PayloadField ==
    [t \in RecordTypes |->
        CASE t = "A" -> "ARecords"
          [] t = "AAAA" -> "AaaaRecords"
          [] t = "CAA" -> "CaaRecords"
          [] t = "CNAME" -> "CnameRecord"
          [] t = "MX" -> "MxRecords"
          [] t = "NS" -> "NsRecords"
          [] t = "PTR" -> "PtrRecords"
          [] t = "SOA" -> "SoaRecord"
          [] t = "SRV" -> "SrvRecords"
          [] t = "TXT" -> "TxtRecords"]

\* The payload fields of a record set that are populated
Populated(recordSet) ==
    {t \in RecordTypes : recordSet.Properties[1][PayloadField[t]] # <<>>}

\* C21: the record set createRecord or updateRecord sends has exactly one
\* payload field populated, the one of the record type passed with it, for
\* every record the operation accepts
C21_PayloadMatchesType ==
    Is("createOrUpdateRecord") =>
        Populated(applied.result.parameters) = {applied.result.recordType}


----------------------------------------------------------------------------
(* Further properties of the provider *)

\* C22: DeleteRecords returns the records that were deleted: a record of its
\* result had a record set of its name and type in the zone before the call
\* and has none after it.  Stated for the first record of a call of the only
\* caller, for which the zone before the call is the zone as deleteRecord
\* found it
C22_ReturnsDeletedRecords ==
    \A c \in Callers :
        (/\ ActiveCallers(workload) = {c}
         /\ Returning(c, "DeleteRecords")
         /\ frame[c].idx = 1
         /\ frame[c].err = "") =>
            /\ HasSet(zoneAtLock, KeyName(Current(c)), KeyType(Current(c)))
            /\ ~HasSet(zone, KeyName(Current(c)), KeyType(Current(c)))


\* The identifier a record carries.  convertAzureRecordSetsToLibdnsRecords
\* builds its records from the name, the TTL and the payload of the record
\* set and from nothing else, so a record it returns has none ("")
Identifier(record) ==
    IF "ProviderData" \in DOMAIN record THEN record.ProviderData ELSE ""

\* C23: a record returned by list carries the ETag of the record set it came
\* from as its identifier: each record converted from a list of record sets
\* has the ETag of a record set of the list that is of the record's type (a
\* set with ETag ETAG_A yields a record with identifier ETAG_A)
C23_RecordCarriesEtag ==
    (Is("convertAzureRecordSetsToLibdnsRecords") /\ ~applied.result.err) =>
        \A j \in 1..Len(applied.result.records) :
            \E i \in 1..Len(applied.arg) :
                /\ RRType(applied.result.records[j]) = TrimTypePrefix(applied.arg[i].Type[1])
                /\ <<Identifier(applied.result.records[j])>> = applied.arg[i].Etag


\* An optional sign followed by one or more decimal digits
IsDecimal(s) ==
    LET body == IF s # <<>> /\ s[1] \in {"+", "-"} THEN Tail(s) ELSE s IN
    body # <<>> /\ \A i \in 1..Len(body) : body[i] \in Digits

\* The five numeric fields of the SOA record of a record set
SoaNumbers(recordSet) ==
    LET soa == recordSet.Properties[1].SoaRecord[1] IN
    <<soa.SerialNumber, soa.RefreshTime, soa.RetryTime, soa.ExpireTime, soa.MinimumTTL>>

\* A SOA record with at least seven fields between single spaces was converted
SoaConverted ==
    /\ Is("convertLibdnsRecordToAzureRecordSet")
    /\ applied.arg.kind = "RR"
    /\ applied.arg.Type = "SOA"
    /\ Len(Split(applied.arg.Data, " ")) >= 7

\* C24, as first stated: in SOA conversion to Azure, each of the five numeric
\* fields that fails base-10 integer parsing is sent as 0, and the conversion
\* still succeeds without error
C24_ParseFailureSentAsZero ==
    SoaConverted =>
        /\ ~applied.result.err
        /\ \A i \in 3..7 :
               ParseInt(Split(applied.arg.Data, " ")[i]).err =>
                   SoaNumbers(applied.result.recordSet)[i - 2] = Int64(0)

\* C24: in SOA conversion to Azure, a numeric field that is not an optional
\* sign followed by decimal digits is sent as 0, a numeric field whose digits
\* are out of the range of an int64 is sent as the limit of that range on the
\* side of its sign, and the conversion succeeds without error in both cases
C24_SyntaxFailureSentAsZero ==
    SoaConverted =>
        /\ ~applied.result.err
        /\ \A i \in 3..7 :
               LET field == Split(applied.arg.Data, " ")[i]
                   sent64 == SoaNumbers(applied.result.recordSet)[i - 2]
               IN
               /\ ~IsDecimal(field) => sent64 = Int64(0)
               /\ IsDecimal(field) /\ ParseInt(field).err =>
                      sent64 = IF field[1] = "-" THEN MinInt64 ELSE MaxInt64

\* A SOA record whose serial number is not a number was converted, with the
\* serial number 0
C24_Witness ==
    /\ SoaConverted
    /\ ~IsDecimal(Split(applied.arg.Data, " ")[3])
    /\ ~applied.result.err
    /\ SoaNumbers(applied.result.recordSet)[1] = Int64(0)


\* C25: each createRecord, updateRecord or deleteRecord issues at most one
\* remote request, and getRecords at most one request per page; a request
\* that failed is never issued again: among the requests of one call of a
\* public method no two are for the same record of the batch or for the same
\* page, and a request that failed is the last one of the call
C25_OneRequestNoRetry ==
    \A c \in Callers :
        /\ \A j, k \in 1..Len(sent[c]) :
               j < k => <<sent[c][j].api, sent[c][j].i>> # <<sent[c][k].api, sent[c][k].i>>
        /\ \A j \in 1..Len(sent[c]) : sent[c][j].failed => j = Len(sent[c])
        /\ frame[c].op \in BatchOps => Len(sent[c]) <= frame[c].idx

\* A batch call has returned after its second request failed on its way: two
\* requests were sent, one for each record
C25_Witness ==
    \E c \in Callers :
        /\ pc[c] = "done"
        /\ frame[c].op \in BatchOps
        /\ frame[c].err = "transport"
        /\ Len(sent[c]) = 2
        /\ sent[c][2].failed


\* C26: convertLibdnsRecordToAzureRecordSet sets only the TTL and the
\* type-specific payload of the record set it returns: Name, Type and Etag
\* are unset for every input; on success the properties hold the TTL of the
\* record in seconds and one payload field; on error the record set is empty
C26_OnlyTtlAndPayload ==
    Is("convertLibdnsRecordToAzureRecordSet") =>
        LET recordSet == applied.result.recordSet IN
        /\ recordSet.Name = <<>>
        /\ recordSet.Type = <<>>
        /\ recordSet.Etag = <<>>
        /\ applied.result.err => recordSet = EmptyRecordSet
        /\ ~applied.result.err =>
               /\ Len(recordSet.Properties) = 1
               /\ recordSet.Properties[1].TTL = <<TTLSeconds(applied.arg.TTL)>>
               /\ Cardinality(Populated(recordSet)) = 1

\* A record with a TTL of 30 s was converted
C26_Witness ==
    /\ Is("convertLibdnsRecordToAzureRecordSet")
    /\ ~applied.result.err
    /\ applied.arg.TTL = 30 * Second
    /\ applied.result.recordSet.Properties[1].TTL = <<30>>
    /\ applied.result.recordSet.Name = <<>>


\* The requests the caller has sent for the record it is at
RequestsForCurrent(c) == {j \in 1..Len(sent[c]) : sent[c][j].i = frame[c].idx}

\* The caller's createRecord, updateRecord or deleteRecord is about to return
\* an error for its record, with no request sent and the zone as it was
RefusedUnsent(c) ==
    /\ frame[c].err \in {"type", "convert"}
    /\ RequestsForCurrent(c) = {}
    /\ zone = zoneAtLock

\* C27, as first stated: createRecord, updateRecord and deleteRecord issue no
\* remote call and leave the zone unchanged when the record's type is not one
\* of the ten supported types or when its conversion to an Azure record set
\* fails, and return the error
C27_NoCallForBadRecord ==
    \A c \in Callers :
        \A op \in BatchOps :
            (/\ Returning(c, op)
             /\ \/ RRType(Current(c)) \notin RecordTypes
                \/ convertLibdnsRecordToAzureRecordSet(Current(c)).err) =>
                RefusedUnsent(c)

\* C27: createRecord, updateRecord and deleteRecord issue no remote call,
\* leave the zone unchanged and return the error when the record's type is
\* not one of the ten supported types, and so do createRecord and
\* updateRecord when the conversion of the record to an Azure record set
\* fails.  deleteRecord does not convert the record: for a record of a
\* supported type it sends its request whether the record converts or not
C27_NoCallForBadTypeOrFailedWrite ==
    \A c \in Callers :
        \A op \in BatchOps :
            Returning(c, op) =>
                /\ RRType(Current(c)) \notin RecordTypes => RefusedUnsent(c)
                /\ (/\ op # "DeleteRecords"
                    /\ convertLibdnsRecordToAzureRecordSet(Current(c)).err) => RefusedUnsent(c)
                /\ (/\ op = "DeleteRecords"
                    /\ RRType(Current(c)) \in RecordTypes) =>
                       /\ Cardinality(RequestsForCurrent(c)) = 1
                       /\ frame[c].err \notin {"type", "convert"}

\* updateRecord is about to return the error of the conversion of the second
\* record of its batch, a SOA record of too few fields, after the first was
\* written
C27_Witness ==
    \E c \in Callers :
        /\ Returning(c, "SetRecords")
        /\ frame[c].idx = 2
        /\ RRType(Current(c)) = "SOA"
        /\ frame[c].err = "convert"
        /\ Len(sent[c]) = 1
        /\ zone = zoneAtLock


\* The position of the last record of the batch that has the name and type
\* of record i
LastOfKey(records, i) ==
    CHOOSE j \in i..Len(records) :
        /\ KeyName(records[j]) = KeyName(records[i])
        /\ KeyType(records[j]) = KeyType(records[i])
        /\ \A k \in (j + 1)..Len(records) :
               ~(/\ KeyName(records[k]) = KeyName(records[i])
                 /\ KeyType(records[k]) = KeyType(records[i]))

\* C28: SetRecords with several records of one (name, type) does not
\* accumulate them: each record is written as a record set of one entry that
\* replaces the previous one, so after a successful call of a caller on its
\* own the record set of each record's name and type holds the TTL and the
\* payload of the last record of that name and type in input order
C28_LastRecordOfKeyRemains ==
    \A c \in Callers :
        (/\ workload = "alone"
         /\ pc[c] = "done"
         /\ frame[c].op = "SetRecords"
         /\ frame[c].err = "") =>
            \A i \in 1..Len(frame[c].records) :
                LET records == frame[c].records
                    last == records[LastOfKey(records, i)]
                IN
                /\ HasSet(zone, KeyName(records[i]), KeyType(records[i]))
                /\ SetOf(zone, KeyName(records[i]), KeyType(records[i])).Properties =
                       convertLibdnsRecordToAzureRecordSet(last).recordSet.Properties

\* SetRecords has returned without error for two address records of the name
\* "a", and the record set holds the address of the second alone
C28_Witness ==
    \E c \in Callers :
        /\ pc[c] = "done"
        /\ frame[c].op = "SetRecords"
        /\ frame[c].err = ""
        /\ frame[c].records = <<recA1, recA2>>
        /\ HasSet(zone, Str_a, "A")
        /\ SetOf(zone, Str_a, "A").Properties[1].ARecords = <<[IPv4Address |-> "10.0.0.1"]>>


\* The caller is between two records of a batch: the function called for the
\* one has returned, the function for the next has not taken the mutex yet
BetweenRecords(c) ==
    /\ frame[c].op \in BatchOps
    /\ pc[c] = "lock"
    /\ frame[c].idx > 1

\* C29: mutual exclusion holds per record, not per batch: AppendRecords,
\* SetRecords and DeleteRecords release the provider mutex between
\* consecutive records, so a caller between two records of its batch does not
\* hold the mutex, and whoever holds it then is another caller in its own
\* operation
C29_MutexFreeBetweenRecords ==
    \A c \in Callers :
        BetweenRecords(c) =>
            /\ mutex # c
            /\ mutex # "" => mutex \in Callers \ {c} /\ InCriticalSection(mutex)

\* While one caller is between the two records of its batch, an operation of
\* another caller has taken effect: the other caller holds the mutex, its
\* request was answered without error and has changed the zone
C29_Witness ==
    \E c, other \in Callers :
        /\ c # other
        /\ BetweenRecords(c)
        /\ mutex = other
        /\ pc[other] = "unlock"
        /\ frame[other].err = ""
        /\ sent[other] # <<>>
        /\ zone # zoneAtLock


\* C30: every operation releases the provider mutex on every return path, so
\* with a service that always answers and fair scheduling every started
\* list, create, update or delete returns, and no caller waits for ever for
\* the mutex: a caller inside a public method gets to its return, and a
\* caller at mutex.Lock() gets the mutex
C30_EveryCallReturns ==
    \A c \in Callers :
        /\ (pc[c] \in {"lock", "setup", "call", "unlock"}) ~> (pc[c] = "done")
        /\ (pc[c] = "lock") ~> (mutex = c)

\* A caller waits at mutex.Lock() while the other holds the mutex and is
\* about to return an error
C30_Witness ==
    \E c, other \in Callers :
        /\ c # other
        /\ pc[c] = "lock"
        /\ mutex = other
        /\ pc[other] = "unlock"
        /\ frame[other].err # ""

====
